---- MODULE Spec2Model ----
(***************************************************************************)
(* Model of the GlowyOrb voice-capture component                           *)
(* (src/frontend/components/user-info.tsx, lines 88-484).                  *)
(*                                                                         *)
(* Every call of startRecording creates one capture session, numbered in   *)
(* call order.  The component is single threaded: each action below is one *)
(* event handler, promise continuation, recorder callback, animation frame *)
(* or timer callback, run to completion.                                   *)
(*                                                                         *)
(* React state is modelled by its latest set value; the value of           *)
(* isRecording captured by the closure of the installed [isRecording]      *)
(* effect is effIsRecording.  Updates made inside a discrete input event   *)
(* are committed before the handler's task ends (part of the action);      *)
(* updates made in the continuation of the getUserMedia promise are        *)
(* committed by a later scheduler task (action Commit).                    *)
(*                                                                         *)
(* The platform MediaRecorder is started without a timeslice, so it        *)
(* delivers one dataavailable event after stop() and then the stop event;  *)
(* stop() on an inactive recorder delivers nothing.                        *)
(***************************************************************************)
EXTENDS Integers, Sequences, FiniteSets, TLC

\* Number of startRecording calls explored.
MaxSessions == 2

Sessions == 1..MaxSessions

\* A null reference (useRef(null)).
NULL == 0

\* Sizes of the Blob carried by the recorder's dataavailable event.
ChunkSizes == {0, 1}

\* Values of KeyboardEvent.code that are told apart by the handlers.
KeyCodes == {"Space", "KeyA"}

\* Averages of the analyser's byte buffer written by a tick (0..255).
SampleAverages == {128}

VARIABLES
  mounted,            \* the component is mounted (listeners attached)
  isRecording,        \* useState isRecording (latest set value)
  isHolding,          \* useState isHolding
  audioLevel,         \* useState audioLevel, as average byte value 0..255
  isUploading,        \* useState isUploading
  uploadStatus,       \* useState uploadStatus
  effIsRecording,     \* isRecording as captured by the installed cleanup effect
  isKeyHolding,       \* local flag of the keyboard effect
  mediaRecorderRef,   \* session whose recorder the ref holds, or NULL
  audioChunksRef,     \* sequence of chunks (each tagged with its recorder)
  analyserRef,        \* session whose analyser the ref holds, or NULL
  animationFrameRef,  \* session whose loop made the latest requestAnimationFrame, or NULL
  pc,                 \* per session: position of startRecording / recorder / upload
  stream,             \* per session: "none" | "live" | "stopped"
  recState,           \* per session: MediaRecorder.state, "none" before construction
  framePending,       \* per session: a frame of its updateAudioLevel is scheduled
  nCalls,             \* number of getUserMedia requests made
  alerts,             \* number of alert() calls
  delivered,          \* per session: non-empty chunks its recorder delivered
  artifact,           \* per session: chunks of the Blob built in onstop
  completeCalls,      \* per session: calls of onRecordingComplete
  uploadCalls,        \* per session: calls of uploadVoiceRecording
  successCalls,       \* per session: calls of onUploadSuccess (until the reset)
  errorCalls,         \* per session: calls of onUploadError (until the reset)
  fetched,            \* uploadVoiceRecording in isolation: what fetch settled with
  settled,            \* uploadVoiceRecording in isolation: what its promise settled with
  dataArray,          \* one run of updateAudioLevel in isolation: the sample buffer
  published,          \* one run of updateAudioLevel in isolation: what it did
  stopInactive        \* recorder.stop() has been called on a recorder that was not recording

vars == <<mounted, isRecording, isHolding, audioLevel, isUploading, uploadStatus,
          effIsRecording, isKeyHolding, mediaRecorderRef, audioChunksRef,
          analyserRef, animationFrameRef, pc, stream, recState, framePending,
          nCalls, alerts, delivered, artifact, completeCalls,
          uploadCalls, successCalls, errorCalls, stopInactive, fetched, settled,
          dataArray, published>>

\* The state of one call of uploadVoiceRecording looked at on its own.
apiVars == <<fetched, settled>>

\* Everything else: the state of the GlowyOrb component.
orbVars == <<mounted, isRecording, isHolding, audioLevel, isUploading, uploadStatus,
             effIsRecording, isKeyHolding, mediaRecorderRef, audioChunksRef,
             analyserRef, animationFrameRef, pc, stream, recState, framePending,
             nCalls, alerts, delivered, artifact, completeCalls,
             uploadCalls, successCalls, errorCalls, stopInactive>>

\* The state of one run of updateAudioLevel looked at on its own.
levelVars == <<dataArray, published>>

\* getByteFrequencyData has not filled the buffer yet / nothing was published.
NoSamples == [read |-> FALSE, bytes |-> <<>>]
NoLevel == [state |-> "none", num |-> 0, den |-> 1, scheduled |-> FALSE]

\* fetch has not settled yet / the promise of uploadVoiceRecording is pending.
NoFetch == [kind |-> "none", status |-> 0, json |-> FALSE]
Pending == [state |-> "pending", name |-> "none", hasStatus |-> FALSE, status |-> 0]

reactState == <<isRecording, isHolding, audioLevel, isUploading, uploadStatus>>
counters == <<delivered, artifact, completeCalls, uploadCalls, successCalls, errorCalls>>

Init ==
  /\ mounted = TRUE
  /\ isRecording = FALSE
  /\ isHolding = FALSE
  /\ audioLevel = 0
  /\ isUploading = FALSE
  /\ uploadStatus = "idle"
  /\ effIsRecording = FALSE
  /\ isKeyHolding = FALSE
  /\ mediaRecorderRef = NULL
  /\ audioChunksRef = <<>>
  /\ analyserRef = NULL
  /\ animationFrameRef = NULL
  /\ pc = [s \in Sessions |-> "unused"]
  /\ stream = [s \in Sessions |-> "none"]
  /\ recState = [s \in Sessions |-> "none"]
  /\ framePending = [s \in Sessions |-> FALSE]
  /\ nCalls = 0
  /\ alerts = 0
  /\ delivered = [s \in Sessions |-> <<>>]
  /\ artifact = [s \in Sessions |-> <<>>]
  /\ completeCalls = [s \in Sessions |-> 0]
  /\ uploadCalls = [s \in Sessions |-> 0]
  /\ successCalls = [s \in Sessions |-> 0]
  /\ errorCalls = [s \in Sessions |-> 0]
  /\ stopInactive = FALSE
  /\ fetched = NoFetch
  /\ settled = Pending
  /\ dataArray = NoSamples
  /\ published = NoLevel

\* A state setter: a no-op once the component is unmounted.
SetState(old, new) == IF mounted THEN new ELSE old

\* mediaRecorderRef.current && mediaRecorderRef.current.state === "recording"
RefRecording == mediaRecorderRef # NULL /\ recState[mediaRecorderRef] = "recording"

\* cancelAnimationFrame(animationFrameRef.current), guarded by a truthy ref.
CancelFrame(fp) ==
  IF animationFrameRef # NULL THEN [fp EXCEPT ![animationFrameRef] = FALSE] ELSE fp

\* recorder.stop(): a recording recorder becomes inactive and will flush.
StopState(rs, r) == IF rs[r] = "recording" THEN [rs EXCEPT ![r] = "inactive"] ELSE rs
StopPc(rs, p, r) == IF rs[r] = "recording" THEN [p EXCEPT ![r] = "flushing"] ELSE p

\* startRecording up to the await: the getUserMedia request of a new session.
startRecording ==
  /\ nCalls < MaxSessions
  /\ nCalls' = nCalls + 1
  /\ pc' = [pc EXCEPT ![nCalls + 1] = "acquiring"]


\* handleMouseDown (also the body of handleTouchStart after preventDefault).
handleMouseDown ==
  /\ mounted
  /\ isHolding' = TRUE
  /\ startRecording
  /\ UNCHANGED <<mounted, isRecording, audioLevel, isUploading, uploadStatus,
                 effIsRecording, isKeyHolding, mediaRecorderRef, audioChunksRef,
                 analyserRef, animationFrameRef, stream, recState, framePending,
                 alerts, stopInactive, counters>>
  /\ UNCHANGED <<apiVars, levelVars>>

handleTouchStart == handleMouseDown

\* Cleanup of the [isRecording] effect, run with the isRecording value its
\* closure captured: stop the recorder in the ref, cancel the frame in the ref.
CleanupStops(closure) == mediaRecorderRef # NULL /\ closure

\* stopRecording deciding on the isRecording value captured by the closure
\* (as the legacy VoiceRecorder does) and not on the recorder's own state.
stopRecordingStaleClosure ==
  LET stopped == RefRecording /\ effIsRecording
      r == mediaRecorderRef
      cleanupRuns == stopped /\ effIsRecording
  IN /\ recState' = IF stopped THEN StopState(recState, r) ELSE recState
     /\ pc' = IF stopped THEN StopPc(recState, pc, r) ELSE pc
     /\ stopInactive' = (stopInactive \/ (cleanupRuns /\ CleanupStops(effIsRecording)))
     /\ isRecording' = IF stopped THEN FALSE ELSE isRecording
     /\ effIsRecording' = IF stopped THEN FALSE ELSE effIsRecording
     /\ framePending' = IF cleanupRuns THEN CancelFrame(framePending) ELSE framePending

\* stopRecording followed by the synchronous commit of setIsRecording(false),
\* which runs the cleanup of the effect installed with isRecording = true.
stopRecording ==
  LET stopped == RefRecording
      r == mediaRecorderRef
      cleanupRuns == stopped /\ effIsRecording
  IN /\ recState' = IF stopped THEN StopState(recState, r) ELSE recState
     /\ pc' = IF stopped THEN StopPc(recState, pc, r) ELSE pc
     /\ stopInactive' = (stopInactive \/ (cleanupRuns /\ CleanupStops(effIsRecording)))
     /\ isRecording' = IF stopped THEN FALSE ELSE isRecording
     /\ effIsRecording' = IF stopped THEN FALSE ELSE effIsRecording
     /\ framePending' = IF cleanupRuns THEN CancelFrame(framePending) ELSE framePending

\* handleMouseUp without line 204: the hold is released, nothing is stopped.
handleMouseUpOnlyReleases ==
  /\ mounted
  /\ isHolding' = FALSE
  /\ UNCHANGED <<mounted, audioLevel, isUploading, uploadStatus, isKeyHolding,
                 mediaRecorderRef, audioChunksRef, analyserRef, animationFrameRef,
                 stream, nCalls, alerts, counters, recState, pc, stopInactive,
                 isRecording, effIsRecording, framePending>>
  /\ UNCHANGED <<apiVars, levelVars>>

\* handleMouseUp: bound to both onMouseUp and onMouseLeave.
handleMouseUp ==
  /\ mounted
  /\ isHolding' = FALSE
  /\ stopRecording
  /\ UNCHANGED <<mounted, audioLevel, isUploading, uploadStatus, isKeyHolding,
                 mediaRecorderRef, audioChunksRef, analyserRef, animationFrameRef,
                 stream, nCalls, alerts, counters>>
  /\ UNCHANGED <<apiVars, levelVars>>

\* onMouseLeave bound to a handler that releases the hold and stops nothing.
handleMouseLeaveOnlyReleases == handleMouseUpOnlyReleases

\* onMouseLeave={handleMouseUp} (line 330).
handleMouseLeave == handleMouseUp

handleTouchEnd == handleMouseUp

\* handleKeyDown without the !isKeyHolding test of line 224: every repeated
\* keydown begins again until the recorder is recording.
handleKeyDownIgnoresHold(code) ==
  /\ mounted
  /\ IF code = "Space" /\ ~RefRecording
       THEN /\ isKeyHolding' = TRUE
            /\ isHolding' = TRUE
            /\ startRecording
       ELSE UNCHANGED <<isKeyHolding, isHolding, nCalls, pc>>
  /\ UNCHANGED <<mounted, isRecording, audioLevel, isUploading, uploadStatus,
                 effIsRecording, mediaRecorderRef, audioChunksRef, analyserRef,
                 animationFrameRef, stream, recState, framePending, alerts,
                 stopInactive, counters>>
  /\ UNCHANGED <<apiVars, levelVars>>

\* handleKeyDown left on the document after unmount (no removeEventListener).
handleKeyDownStaysAttached(code) ==
  /\ IF code = "Space" /\ ~isKeyHolding /\ ~RefRecording
       THEN /\ isKeyHolding' = TRUE
            /\ isHolding' = TRUE
            /\ startRecording
       ELSE UNCHANGED <<isKeyHolding, isHolding, nCalls, pc>>
  /\ UNCHANGED <<mounted, isRecording, audioLevel, isUploading, uploadStatus,
                 effIsRecording, mediaRecorderRef, audioChunksRef, analyserRef,
                 animationFrameRef, stream, recState, framePending, alerts,
                 stopInactive, counters>>
  /\ UNCHANGED <<apiVars, levelVars>>

\* handleKeyDown of the keyboard effect.
handleKeyDown(code) ==
  /\ mounted
  /\ IF code = "Space" /\ ~isKeyHolding /\ ~RefRecording
       THEN /\ isKeyHolding' = TRUE
            /\ isHolding' = TRUE
            /\ startRecording
       ELSE UNCHANGED <<isKeyHolding, isHolding, nCalls, pc>>
  /\ UNCHANGED <<mounted, isRecording, audioLevel, isUploading, uploadStatus,
                 effIsRecording, mediaRecorderRef, audioChunksRef, analyserRef,
                 animationFrameRef, stream, recState, framePending, alerts,
                 stopInactive, counters>>
  /\ UNCHANGED <<apiVars, levelVars>>

\* handleKeyUp without the e.code test of line 238: any key released while
\* Space is held ends the gesture.
handleKeyUpAnyKey(code) ==
  /\ mounted
  /\ IF isKeyHolding
       THEN /\ isKeyHolding' = FALSE
            /\ isHolding' = FALSE
            /\ stopRecording
       ELSE UNCHANGED <<isKeyHolding, isHolding, recState, pc, stopInactive,
                        isRecording, effIsRecording, framePending>>
  /\ UNCHANGED <<mounted, audioLevel, isUploading, uploadStatus, mediaRecorderRef,
                 audioChunksRef, analyserRef, animationFrameRef, stream, nCalls,
                 alerts, counters>>
  /\ UNCHANGED <<apiVars, levelVars>>

\* handleKeyUp of the keyboard effect (its stop is the body of stopRecording).
handleKeyUp(code) ==
  /\ mounted
  /\ IF code = "Space" /\ isKeyHolding
       THEN /\ isKeyHolding' = FALSE
            /\ isHolding' = FALSE
            /\ stopRecording
       ELSE UNCHANGED <<isKeyHolding, isHolding, recState, pc, stopInactive,
                        isRecording, effIsRecording, framePending>>
  /\ UNCHANGED <<mounted, audioLevel, isUploading, uploadStatus, mediaRecorderRef,
                 audioChunksRef, analyserRef, animationFrameRef, stream, nCalls,
                 alerts, counters>>
  /\ UNCHANGED <<apiVars, levelVars>>

\* The render scheduled by setIsRecording(true) in startRecording's continuation:
\* the effect installed with isRecording = false is cleaned up and replaced.
Commit ==
  /\ mounted
  /\ isRecording # effIsRecording
  /\ LET stops == CleanupStops(effIsRecording)
         r == mediaRecorderRef
     IN /\ recState' = IF stops THEN StopState(recState, r) ELSE recState
        /\ pc' = IF stops THEN StopPc(recState, pc, r) ELSE pc
        /\ stopInactive' = (stopInactive \/ (stops /\ recState[r] # "recording"))
  /\ framePending' = CancelFrame(framePending)
  /\ effIsRecording' = isRecording
  /\ UNCHANGED <<mounted, reactState, isKeyHolding, mediaRecorderRef, audioChunksRef,
                 analyserRef, animationFrameRef, stream, nCalls,
                 alerts, counters>>
  /\ UNCHANGED <<apiVars, levelVars>>

\* Unmount: the keyboard listeners are removed (handleKeyDown and handleKeyUp
\* with their isKeyHolding flag become unreachable) and the installed cleanup
\* runs.  React discards the state of the unmounted component: no setter has an
\* effect any more and nothing reads it, so it is represented by its initial
\* values from here on.
Unmount ==
  /\ mounted
  /\ mounted' = FALSE
  /\ LET stops == CleanupStops(effIsRecording)
         r == mediaRecorderRef
     IN /\ recState' = IF stops THEN StopState(recState, r) ELSE recState
        /\ pc' = IF stops THEN StopPc(recState, pc, r) ELSE pc
        /\ stopInactive' = (stopInactive \/ (stops /\ recState[r] # "recording"))
  /\ framePending' = CancelFrame(framePending)
  /\ isRecording' = FALSE
  /\ isHolding' = FALSE
  /\ audioLevel' = 0
  /\ isUploading' = FALSE
  /\ uploadStatus' = "idle"
  /\ effIsRecording' = FALSE
  /\ isKeyHolding' = FALSE
  /\ UNCHANGED <<mediaRecorderRef, audioChunksRef, analyserRef, animationFrameRef,
                 stream, nCalls, alerts, counters>>
  /\ UNCHANGED <<apiVars, levelVars>>

\* One run of updateAudioLevel for session s writing the average avg.
\* Returns the new <<audioLevel, animationFrameRef, framePending[s]>>.
updateAudioLevel(s, avg) ==
  IF analyserRef' # NULL
    THEN <<SetState(audioLevel, avg), s, TRUE>>
    ELSE <<audioLevel, animationFrameRef, FALSE>>

\* Deny with the rejection not leaving the try block: the recorder is still
\* constructed, stored and started.
DenyFallsThrough(s) ==
  /\ pc[s] = "acquiring"
  /\ pc' = [pc EXCEPT ![s] = "denied"]
  /\ alerts' = alerts + 1
  /\ mediaRecorderRef' = s
  /\ recState' = [recState EXCEPT ![s] = "recording"]
  /\ UNCHANGED <<mounted, reactState, effIsRecording, isKeyHolding,
                 audioChunksRef, analyserRef, animationFrameRef, stream,
                 framePending, nCalls, stopInactive, counters>>
  /\ UNCHANGED <<apiVars, levelVars>>

\* Deny with the catch block also showing the error status.
DenySetsError(s) ==
  /\ pc[s] = "acquiring"
  /\ pc' = [pc EXCEPT ![s] = "denied"]
  /\ alerts' = alerts + 1
  /\ uploadStatus' = SetState(uploadStatus, "error")
  /\ UNCHANGED <<mounted, isRecording, isHolding, audioLevel, isUploading,
                 effIsRecording, isKeyHolding, mediaRecorderRef,
                 audioChunksRef, analyserRef, animationFrameRef, stream, recState,
                 framePending, nCalls, stopInactive, counters>>
  /\ UNCHANGED <<apiVars, levelVars>>

\* getUserMedia rejects: the catch block of startRecording.
Deny(s) ==
  /\ pc[s] = "acquiring"
  /\ pc' = [pc EXCEPT ![s] = "denied"]
  /\ alerts' = alerts + 1
  /\ UNCHANGED <<mounted, reactState, effIsRecording, isKeyHolding, mediaRecorderRef,
                 audioChunksRef, analyserRef, animationFrameRef, stream, recState,
                 framePending, nCalls, stopInactive, counters>>
  /\ UNCHANGED <<apiVars, levelVars>>

\* getUserMedia resolves and startRecording runs to its end: analyser set up,
\* first updateAudioLevel run, recorder constructed, stored and started.
Grant(s, avg) ==
  /\ pc[s] = "acquiring"
  /\ stream' = [stream EXCEPT ![s] = "live"]
  /\ analyserRef' = s
  /\ LET u == updateAudioLevel(s, avg)
     IN /\ audioLevel' = u[1]
        /\ animationFrameRef' = u[2]
        /\ framePending' = [framePending EXCEPT ![s] = u[3]]
  /\ mediaRecorderRef' = s
  /\ audioChunksRef' = <<>>
  /\ recState' = [recState EXCEPT ![s] = "recording"]
  /\ pc' = [pc EXCEPT ![s] = "recording"]
  /\ isRecording' = SetState(isRecording, TRUE)
  /\ UNCHANGED <<mounted, isHolding, isUploading, uploadStatus, effIsRecording,
                 isKeyHolding, nCalls, alerts, stopInactive, counters>>
  /\ UNCHANGED <<apiVars, levelVars>>

\* getUserMedia resolves but a constructor throws: "AudioContext" (line 116)
\* before anything is set up, or "MediaRecorder" (line 135) after the analyser
\* is stored and the first updateAudioLevel has run; then the catch block.
GrantThrows(s, ctor, avg) ==
  /\ pc[s] = "acquiring"
  /\ stream' = [stream EXCEPT ![s] = "live"]
  /\ IF ctor = "MediaRecorder"
       THEN /\ analyserRef' = s
            /\ LET u == updateAudioLevel(s, avg)
               IN /\ audioLevel' = u[1]
                  /\ animationFrameRef' = u[2]
                  /\ framePending' = [framePending EXCEPT ![s] = u[3]]
       ELSE UNCHANGED <<analyserRef, audioLevel, animationFrameRef, framePending>>
  /\ pc' = [pc EXCEPT ![s] = "threw"]
  /\ alerts' = alerts + 1
  /\ UNCHANGED <<mounted, isRecording, isHolding, isUploading, uploadStatus,
                 effIsRecording, isKeyHolding, mediaRecorderRef, audioChunksRef,
                 recState, nCalls, stopInactive, counters>>
  /\ UNCHANGED <<apiVars, levelVars>>

\* An animation frame of session s's updateAudioLevel fires.
Tick(s, avg) ==
  /\ framePending[s]
  /\ UNCHANGED analyserRef
  /\ LET u == updateAudioLevel(s, avg)
     IN /\ audioLevel' = u[1]
        /\ animationFrameRef' = u[2]
        /\ framePending' = [framePending EXCEPT ![s] = u[3]]
  /\ UNCHANGED <<mounted, isRecording, isHolding, isUploading, uploadStatus,
                 effIsRecording, isKeyHolding, mediaRecorderRef, audioChunksRef,
                 pc, stream, recState, nCalls, alerts, stopInactive,
                 counters>>
  /\ UNCHANGED <<apiVars, levelVars>>

\* mediaRecorder.ondataavailable: push a chunk of non-zero size.
ondataavailable(chunks, s, size) == IF size > 0 THEN Append(chunks, s) ELSE chunks

\* onstop without line 147: the artifact is uploaded but never handed to
\* onRecordingComplete.
onstopSkipsComplete(s, size) ==
  /\ pc[s] = "flushing"
  /\ audioChunksRef' = ondataavailable(audioChunksRef, s, size)
  /\ delivered' = [delivered EXCEPT ![s] = ondataavailable(@, s, size)]
  /\ artifact' = [artifact EXCEPT ![s] = audioChunksRef']
  /\ stream' = [stream EXCEPT ![s] = "stopped"]
  /\ framePending' = CancelFrame(framePending)
  /\ audioLevel' = SetState(audioLevel, 0)
  /\ isUploading' = SetState(isUploading, TRUE)
  /\ uploadStatus' = SetState(uploadStatus, "idle")
  /\ uploadCalls' = [uploadCalls EXCEPT ![s] = @ + 1]
  /\ pc' = [pc EXCEPT ![s] = "uploading"]
  /\ UNCHANGED <<mounted, isRecording, isHolding, effIsRecording, isKeyHolding,
                 mediaRecorderRef, analyserRef, animationFrameRef, completeCalls,
                 recState, nCalls, alerts, stopInactive, successCalls, errorCalls>>
  /\ UNCHANGED <<apiVars, levelVars>>

\* onstop without line 150: the upload is started on a stream left live.
onstopKeepsTracks(s, size) ==
  /\ pc[s] = "flushing"
  /\ audioChunksRef' = ondataavailable(audioChunksRef, s, size)
  /\ delivered' = [delivered EXCEPT ![s] = ondataavailable(@, s, size)]
  /\ artifact' = [artifact EXCEPT ![s] = audioChunksRef']
  /\ completeCalls' = [completeCalls EXCEPT ![s] = @ + 1]
  /\ framePending' = CancelFrame(framePending)
  /\ audioLevel' = SetState(audioLevel, 0)
  /\ isUploading' = SetState(isUploading, TRUE)
  /\ uploadStatus' = SetState(uploadStatus, "idle")
  /\ uploadCalls' = [uploadCalls EXCEPT ![s] = @ + 1]
  /\ pc' = [pc EXCEPT ![s] = "uploading"]
  /\ UNCHANGED <<mounted, isRecording, isHolding, effIsRecording, isKeyHolding,
                 mediaRecorderRef, analyserRef, animationFrameRef, stream,
                 recState, nCalls, alerts, stopInactive, successCalls, errorCalls>>
  /\ UNCHANGED <<apiVars, levelVars>>

\* The task queued by recorder.stop() for session s: the dataavailable event
\* with the recorded data, then the stop event, whose handler mediaRecorder.onstop
\* runs up to the await of uploadVoiceRecording.
onstop(s, size) ==
  /\ pc[s] = "flushing"
  /\ audioChunksRef' = ondataavailable(audioChunksRef, s, size)
  /\ delivered' = [delivered EXCEPT ![s] = ondataavailable(@, s, size)]
  /\ artifact' = [artifact EXCEPT ![s] = audioChunksRef']
  /\ completeCalls' = [completeCalls EXCEPT ![s] = @ + 1]
  /\ stream' = [stream EXCEPT ![s] = "stopped"]
  /\ framePending' = CancelFrame(framePending)
  /\ audioLevel' = SetState(audioLevel, 0)
  /\ isUploading' = SetState(isUploading, TRUE)
  /\ uploadStatus' = SetState(uploadStatus, "idle")
  /\ uploadCalls' = [uploadCalls EXCEPT ![s] = @ + 1]
  /\ pc' = [pc EXCEPT ![s] = "uploading"]
  /\ UNCHANGED <<mounted, isRecording, isHolding, effIsRecording, isKeyHolding,
                 mediaRecorderRef, analyserRef, animationFrameRef,
                 recState, nCalls, alerts, stopInactive, successCalls, errorCalls>>
  /\ UNCHANGED <<apiVars, levelVars>>

\* Delay of the reset timer scheduled after a fulfilled upload (line 168) and
\* after a rejected one (line 178), in milliseconds.
SuccessResetDelay == 3000
ErrorResetDelay == 3000

\* UploadSettles with the catch block also entered after a fulfilled upload.
UploadSettlesNotifiesBoth(s, ok) ==
  /\ pc[s] = "uploading"
  /\ uploadStatus' = SetState(uploadStatus, "error")
  /\ successCalls' = [successCalls EXCEPT ![s] = IF ok THEN @ + 1 ELSE @]
  /\ errorCalls' = [errorCalls EXCEPT ![s] = @ + 1]
  /\ pc' = [pc EXCEPT ![s] = "failed"]
  /\ artifact' = [artifact EXCEPT ![s] = <<>>]
  /\ delivered' = [delivered EXCEPT ![s] = <<>>]
  /\ UNCHANGED <<mounted, isRecording, isHolding, audioLevel, isUploading,
                 effIsRecording, isKeyHolding, mediaRecorderRef, audioChunksRef,
                 analyserRef, animationFrameRef, stream, recState, framePending,
                 nCalls, alerts, stopInactive, completeCalls, uploadCalls>>
  /\ UNCHANGED <<apiVars, levelVars>>

\* uploadVoiceRecording settles (ok: fulfilled, otherwise rejected): status set,
\* the outcome callback called, reset timer scheduled.
UploadSettles(s, ok) ==
  /\ pc[s] = "uploading"
  /\ uploadStatus' = SetState(uploadStatus, IF ok THEN "success" ELSE "error")
  /\ successCalls' = [successCalls EXCEPT ![s] = IF ok THEN @ + 1 ELSE @]
  /\ errorCalls' = [errorCalls EXCEPT ![s] = IF ok THEN @ ELSE @ + 1]
  /\ pc' = [pc EXCEPT ![s] = IF ok THEN "succeeded" ELSE "failed"]
  /\ artifact' = [artifact EXCEPT ![s] = <<>>]
  /\ delivered' = [delivered EXCEPT ![s] = <<>>]
  /\ UNCHANGED <<mounted, isRecording, isHolding, audioLevel, isUploading,
                 effIsRecording, isKeyHolding, mediaRecorderRef, audioChunksRef,
                 analyserRef, animationFrameRef, stream, recState, framePending,
                 nCalls, alerts, stopInactive, completeCalls, uploadCalls>>
  /\ UNCHANGED <<apiVars, levelVars>>

\* The 3000 ms reset timer of session s fires.
\* The reset callback without line 166 (176): the status is left as it is.
ResetTimerKeepsStatus(s) ==
  /\ pc[s] \in {"succeeded", "failed"}
  /\ successCalls' = [successCalls EXCEPT ![s] = 0]
  /\ errorCalls' = [errorCalls EXCEPT ![s] = 0]
  /\ isUploading' = SetState(isUploading, FALSE)
  /\ pc' = [pc EXCEPT ![s] = "done"]
  /\ UNCHANGED <<mounted, isRecording, isHolding, audioLevel, uploadStatus,
                 effIsRecording, isKeyHolding, mediaRecorderRef, audioChunksRef,
                 analyserRef, animationFrameRef, stream, recState, framePending,
                 nCalls, alerts, stopInactive, delivered, artifact,
                 completeCalls, uploadCalls>>
  /\ UNCHANGED <<apiVars, levelVars>>

ResetTimer(s) ==
  /\ pc[s] \in {"succeeded", "failed"}
  /\ uploadStatus' = SetState(uploadStatus, "idle")
  /\ isUploading' = SetState(isUploading, FALSE)
  /\ pc' = [pc EXCEPT ![s] = "done"]
  /\ successCalls' = [successCalls EXCEPT ![s] = 0]
  /\ errorCalls' = [errorCalls EXCEPT ![s] = 0]
  /\ UNCHANGED <<mounted, isRecording, isHolding, audioLevel, effIsRecording,
                 isKeyHolding, mediaRecorderRef, audioChunksRef, analyserRef,
                 animationFrameRef, stream, recState, framePending, nCalls,
                 alerts, stopInactive, delivered, artifact, completeCalls,
                 uploadCalls>>
  /\ UNCHANGED <<apiVars, levelVars>>

Next ==
  \/ handleMouseDown
  \/ handleTouchStart
  \/ handleMouseUp
  \/ handleMouseLeave
  \/ handleTouchEnd
  \/ \E code \in KeyCodes : handleKeyDown(code)
  \/ \E code \in KeyCodes : handleKeyUp(code)
  \/ Commit
  \/ Unmount
  \/ \E s \in Sessions : Deny(s)
  \/ \E s \in Sessions, avg \in SampleAverages : Grant(s, avg)
  \/ \E s \in Sessions, ctor \in {"AudioContext", "MediaRecorder"},
        avg \in SampleAverages : GrantThrows(s, ctor, avg)
  \/ \E s \in Sessions, avg \in SampleAverages : Tick(s, avg)
  \/ \E s \in Sessions, size \in ChunkSizes : onstop(s, size)
  \/ \E s \in Sessions, ok \in BOOLEAN : UploadSettles(s, ok)
  \/ \E s \in Sessions : ResetTimer(s)

Spec == Init /\ [][Next]_vars

(***************************************************************************)
(* The legacy VoiceRecorder (components/voice-recorder.tsx).  Its state,   *)
(* startRecording, recorder handlers, upload and effect cleanup are those  *)
(* of GlowyOrb line for line; it has no keyboard effect, and its           *)
(* stopRecording decides on the isRecording value of the render whose      *)
(* handlers are installed.                                                 *)
(***************************************************************************)

\* stopRecording of VoiceRecorder, followed by the synchronous commit of
\* setIsRecording(false): the cleanup of the effect installed with
\* isRecording = true calls stop() again and cancels the frame in the ref.
legacyStopRecording ==
  LET called == mediaRecorderRef # NULL /\ effIsRecording
      r == mediaRecorderRef
  IN /\ recState' = IF called THEN StopState(recState, r) ELSE recState
     /\ pc' = IF called THEN StopPc(recState, pc, r) ELSE pc
     /\ stopInactive' = (stopInactive \/ called)
     /\ isRecording' = IF called THEN FALSE ELSE isRecording
     /\ effIsRecording' = IF called THEN FALSE ELSE effIsRecording
     /\ framePending' = IF called THEN CancelFrame(framePending) ELSE framePending

\* handleMouseUp of VoiceRecorder: bound to both onMouseUp and onMouseLeave.
legacyHandleMouseUp ==
  /\ mounted
  /\ isHolding' = FALSE
  /\ legacyStopRecording
  /\ UNCHANGED <<mounted, audioLevel, isUploading, uploadStatus, isKeyHolding,
                 mediaRecorderRef, audioChunksRef, analyserRef, animationFrameRef,
                 stream, nCalls, alerts, counters>>
  /\ UNCHANGED <<apiVars, levelVars>>

legacyHandleMouseLeave == legacyHandleMouseUp

legacyHandleTouchEnd == legacyHandleMouseUp

LegacyNext ==
  \/ handleMouseDown
  \/ handleTouchStart
  \/ legacyHandleMouseUp
  \/ legacyHandleMouseLeave
  \/ legacyHandleTouchEnd
  \/ Commit
  \/ Unmount
  \/ \E s \in Sessions : Deny(s)
  \/ \E s \in Sessions, avg \in SampleAverages : Grant(s, avg)
  \/ \E s \in Sessions, ctor \in {"AudioContext", "MediaRecorder"},
        avg \in SampleAverages : GrantThrows(s, ctor, avg)
  \/ \E s \in Sessions, avg \in SampleAverages : Tick(s, avg)
  \/ \E s \in Sessions, size \in ChunkSizes : onstop(s, size)
  \/ \E s \in Sessions, ok \in BOOLEAN : UploadSettles(s, ok)
  \/ \E s \in Sessions : ResetTimer(s)

LegacySpec == Init /\ [][LegacyNext]_vars

(***************************************************************************)
(* uploadVoiceRecording (lib/api-client.ts) on its own: one call, from the *)
(* settling of fetch to the settling of the returned promise.              *)
(***************************************************************************)

\* Largest HTTP status code a response is drawn with.
MaxStatus == 599

\* Status codes of the responses fetch can resolve with.
Statuses == 200..MaxStatus

\* What the fetch of line 88 settles with: a response (whose body parses as
\* JSON or does not), or a rejection for a transport-level failure.
FetchResults ==
  [kind : {"response"}, status : Statuses, json : BOOLEAN]
    \cup {[kind |-> "failure", status |-> 0, json |-> FALSE]}

\* response.ok: the status is in the range 200-299.
ResponseOk(r) == r.status >= 200 /\ r.status <= 299

\* uploadVoiceRecording throwing one ApiError without a status for every
\* failure, whatever its cause.
uploadVoiceRecordingWrapsAll(r) ==
  IF r.kind = "response" /\ ResponseOk(r) /\ r.json
    THEN [state |-> "fulfilled", name |-> "none", hasStatus |-> FALSE, status |-> 0]
    ELSE [state |-> "rejected", name |-> "ApiError", hasStatus |-> FALSE, status |-> 0]

\* The settling of the promise returned by uploadVoiceRecording, given what
\* fetch settled with: a rejection of fetch passes through (TypeError, no
\* status field); a response that is not ok throws ApiError with its status;
\* otherwise the promise follows response.json().
uploadVoiceRecording(r) ==
  IF r.kind = "failure"
    THEN [state |-> "rejected", name |-> "TypeError", hasStatus |-> FALSE, status |-> 0]
    ELSE IF ~ResponseOk(r)
      THEN [state |-> "rejected", name |-> "ApiError", hasStatus |-> TRUE,
            status |-> r.status]
      ELSE IF r.json
        THEN [state |-> "fulfilled", name |-> "none", hasStatus |-> FALSE, status |-> 0]
        ELSE [state |-> "rejected", name |-> "SyntaxError", hasStatus |-> FALSE,
              status |-> 0]

\* await fetch(...) settles with r.
fetch(r) ==
  /\ fetched = NoFetch
  /\ fetched' = r
  /\ UNCHANGED <<settled, orbVars, levelVars>>

\* The rest of uploadVoiceRecording runs and its promise settles.
uploadReturns ==
  /\ fetched # NoFetch
  /\ settled = Pending
  /\ settled' = uploadVoiceRecording(fetched)
  /\ UNCHANGED <<fetched, orbVars, levelVars>>

ApiNext ==
  \/ \E r \in FetchResults : fetch(r)
  \/ uploadReturns

ApiSpec == Init /\ [][ApiNext]_vars

(***************************************************************************)
(* updateAudioLevel on its own: one run on a sample buffer, from the read  *)
(* of the analyser to the level handed to setAudioLevel, and the           *)
(* setAudioLevel(0) of onstop.  A level is kept as the fraction num / den. *)
(***************************************************************************)

\* Largest length of the sample buffer (analyser.frequencyBinCount).
MaxBufLen == 3

\* Byte values getByteFrequencyData fills the Uint8Array with.
SampleBytes == {0, 1, 128, 255}

\* The sample buffers of length 0..MaxBufLen.
SampleBuffers == UNION {[1..n -> SampleBytes] : n \in 0..MaxBufLen}

\* dataArray.reduce((a, b) => a + b) on a buffer that is not empty.
RECURSIVE reduce(_)
reduce(arr) ==
  IF Len(arr) = 1 THEN arr[1] ELSE reduce(SubSeq(arr, 1, Len(arr) - 1)) + arr[Len(arr)]

\* The body of updateAudioLevel with its level normalised by 128, not 255.
computeLevelHalfScale(arr) ==
  IF Len(arr) = 0
    THEN [state |-> "raised", num |-> 0, den |-> 1, scheduled |-> FALSE]
    ELSE [state |-> "written", num |-> reduce(arr), den |-> Len(arr) * 128,
          scheduled |-> TRUE]

\* The body of updateAudioLevel once the buffer is filled: reduce without an
\* initial value throws a TypeError on an empty array, and then neither
\* setAudioLevel nor requestAnimationFrame is reached; otherwise
\* average / 255 = sum / (length * 255) is written and the next frame requested.
computeLevel(arr) ==
  IF Len(arr) = 0
    THEN [state |-> "raised", num |-> 0, den |-> 1, scheduled |-> FALSE]
    ELSE [state |-> "written", num |-> reduce(arr), den |-> Len(arr) * 255,
          scheduled |-> TRUE]

\* analyserRef.current.getByteFrequencyData(dataArray) fills the buffer.
getByteFrequencyData(arr) ==
  /\ ~dataArray.read
  /\ dataArray' = [read |-> TRUE, bytes |-> arr]
  /\ UNCHANGED <<published, orbVars, apiVars>>

\* The rest of the run of updateAudioLevel.
publishLevel ==
  /\ dataArray.read
  /\ published.state = "none"
  /\ published' = computeLevel(dataArray.bytes)
  /\ UNCHANGED <<dataArray, orbVars, apiVars>>

\* setAudioLevel(0) in onstop.
finalizeLevel ==
  /\ published.state \in {"written", "raised"}
  /\ published' = [state |-> "finalized", num |-> 0, den |-> 1, scheduled |-> FALSE]
  /\ UNCHANGED <<dataArray, orbVars, apiVars>>

LevelNext ==
  \/ \E arr \in SampleBuffers : getByteFrequencyData(arr)
  \/ publishLevel
  \/ finalizeLevel

LevelSpec == Init /\ [][LevelNext]_vars

(***************************************************************************)
(* Phases of the capture session, read off the position of each call of    *)
(* startRecording.                                                         *)
(***************************************************************************)
Phase(s) ==
  CASE pc[s] = "acquiring" -> "Acquiring"
    [] pc[s] = "recording" -> "Recording"
    [] pc[s] = "flushing" -> "Stopping"
    [] pc[s] = "uploading" -> "Uploading"
    [] pc[s] = "succeeded" -> "Succeeded"
    [] pc[s] = "failed" -> "Failed"
    [] OTHER -> "Idle"

InPhase(phases) == {s \in Sessions : Phase(s) \in phases}

\* Timers scheduled by setTimeout and not yet fired.
PendingTimers == {s \in Sessions : pc[s] \in {"succeeded", "failed"}}

\* C1: while a session is Acquiring or Recording no step requests the
\* microphone again (every further begin intent is without effect).
C1_BeginIsIdempotent ==
  [][InPhase({"Acquiring", "Recording"}) # {} => nCalls' = nCalls]_vars

\* C2: while the previous session is Stopping, Uploading, Succeeded or Failed
\* (and none is Acquiring or Recording) no step requests the microphone: an
\* acquisition starts only from Idle.
C2_BeginOnlyFromIdle ==
  [][(/\ InPhase({"Stopping", "Uploading", "Succeeded", "Failed"}) # {}
      /\ InPhase({"Acquiring", "Recording"}) = {})
     => nCalls' = nCalls]_vars

\* C3: at most one microphone stream is live and at most one recorder is in
\* state 'recording'.
C3_AtMostOneSession ==
  /\ Cardinality({s \in Sessions : stream[s] = "live"}) <= 1
  /\ Cardinality({s \in Sessions : recState[s] = "recording"}) <= 1

\* Nothing is in flight and the recorder in the ref is not recording: the
\* last gesture was an end, delivered after every started recorder started.
Settled ==
  /\ mounted
  /\ ~isHolding
  /\ ~RefRecording
  /\ InPhase({"Acquiring", "Stopping", "Uploading"}) = {}

\* C4: once every begin has been answered by an end and nothing is in flight,
\* uploadVoiceRecording has been called exactly once for every session whose
\* recorder was started.
C4_ExactlyOneUpload ==
  Settled => \A s \in Sessions : recState[s] # "none" => uploadCalls[s] = 1

\* C5: the artifact a session uploads is exactly the sequence of non-empty
\* chunks that session's recorder delivered.
C5_ArtifactIsOwnChunks ==
  \A s \in Sessions : pc[s] = "uploading" => artifact[s] = delivered[s]

\* C6: when no session is Acquiring, Recording or Stopping, no stream track is
\* live, analyserRef holds no analysis node and no recorder is recording.
C6_ResourcesOnlyWhileCapturing ==
  InPhase({"Acquiring", "Recording", "Stopping"}) = {}
    => /\ \A s \in Sessions : stream[s] # "live" /\ recState[s] # "recording"
       /\ analyserRef = NULL

\* C7: once an end intent has stopped a session's recorder, no frame of that
\* session's visualization loop is pending (none can run during Stopping,
\* Uploading, Succeeded, Failed or the Idle that follows).
C7_NoTickAfterStop ==
  \A s \in Sessions :
    pc[s] \in {"flushing", "uploading", "succeeded", "failed", "done"}
      => ~framePending[s]

\* C8: the step that unmounts the component stops every recording recorder
\* and leaves no visualization frame of it pending.
C8_UnmountStopsRecording ==
  [][(mounted /\ ~mounted')
     => \A s \in Sessions :
          recState[s] = "recording"
            => recState'[s] = "inactive" /\ ~framePending'[s]]_vars

\* C9: for a session whose acquisition was denied no recorder is constructed,
\* no visualization frame is scheduled, and neither onRecordingComplete nor
\* uploadVoiceRecording is called.
C9_DeniedDoesNothing ==
  \A s \in Sessions :
    pc[s] = "denied"
      => /\ recState[s] = "none"
         /\ stream[s] = "none"
         /\ ~framePending[s]
         /\ mediaRecorderRef # s /\ analyserRef # s /\ animationFrameRef # s
         /\ completeCalls[s] = 0
         /\ uploadCalls[s] = 0

\* C9 witness: a session was denied after another one had uploaded.
C9_Witness ==
  \E s, u \in Sessions : pc[s] = "denied" /\ alerts > 0 /\ uploadCalls[u] = 1

C12_IdleHoldsNoResource ==
  \A s \in Sessions :
    pc[s] \in {"denied", "threw", "done"}
      => /\ stream[s] # "live"
         /\ recState[s] # "recording"
         /\ ~framePending[s]

\* C13: the tracks of a session's stream are stopped by its onstop handler
\* and by nothing else: never while its recorder is recording, and always
\* before uploadVoiceRecording has been called for it.
C13_TracksStoppedAtOnstop ==
  /\ [](\A s \in Sessions :
          /\ recState[s] = "recording" => stream[s] # "stopped"
          /\ pc[s] \in {"acquiring", "recording", "flushing"}
               => stream[s] # "stopped"
          /\ uploadCalls[s] > 0 => stream[s] = "stopped")
  /\ [][\A s \in Sessions :
          (stream[s] # "stopped" /\ stream'[s] = "stopped")
            => pc[s] = "flushing" /\ pc'[s] = "uploading"]_vars

\* C13 witness: onstop has run for a session: its tracks are stopped and its
\* upload is in flight.
C13_Witness ==
  \E s \in Sessions :
    pc[s] = "uploading" /\ stream[s] = "stopped" /\ uploadCalls[s] = 1

\* C14: when a constructor throws after the microphone was granted, the step
\* that runs the catch block leaves the stream's tracks stopped and no tick
\* pending.
C14_CatchReleasesResources ==
  [][\A s \in Sessions :
       (pc[s] = "acquiring" /\ pc'[s] = "threw")
         => stream'[s] = "stopped" /\ ~framePending'[s]]_vars

StopsRecorder(A) == ENABLED (A /\ recState'[mediaRecorderRef] = "inactive")

\* Delivering the end event whose handler is the action A calls stop() on a
\* recorder that is recording.
CallsStop(A) == ENABLED (A /\ recState' # recState)

\* C16: whenever the recorder is recording, each of mouse up, mouse leave,
\* touch end and Space keyup stops it, whatever modality began the session.
C16_EveryEndStops ==
  (mounted /\ RefRecording)
    => /\ StopsRecorder(handleMouseUp)
       /\ StopsRecorder(handleMouseLeave)
       /\ StopsRecorder(handleTouchEnd)
       /\ StopsRecorder(handleKeyUp("Space"))

\* C16 (amended): whenever the recorder is recording, each of mouse up, mouse
\* leave and touch end stops it, whatever modality began the session; Space
\* keyup stops it exactly when a Space keydown was effective before
\* (isKeyHolding), and is ignored otherwise.
C16_PointerEndStops ==
  (mounted /\ RefRecording)
    => /\ StopsRecorder(handleMouseUp)
       /\ StopsRecorder(handleMouseLeave)
       /\ StopsRecorder(handleTouchEnd)
       /\ StopsRecorder(handleKeyUp("Space")) <=> isKeyHolding

\* C16 witness: a session begun while Space is held has been ended by a
\* pointer event: the key is still down and the recorder is flushing.
C16_Witness ==
  /\ mounted /\ isKeyHolding /\ ~isHolding /\ nCalls = 1
  /\ mediaRecorderRef = 1 /\ pc[1] = "flushing"

\* C17: an end intent (mouse up, touch end, Space keyup after an effective
\* keydown) calls recorder.stop() if and only if the recorder in
\* mediaRecorderRef is recording, whatever isRecording value the closure of
\* the current render holds.
C17_StopChecksRecorderState ==
  mounted
    => /\ CallsStop(handleMouseUp) <=> RefRecording
       /\ CallsStop(handleTouchEnd) <=> RefRecording
       /\ isKeyHolding => (CallsStop(handleKeyUp("Space")) <=> RefRecording)

\* C17 witness: the recorder was stopped by an end intent delivered before the
\* render of isRecording = true was committed: the closure still held false,
\* so the effect cleanup did not run and the tick of the session is pending.
C17_Witness ==
  /\ mounted /\ nCalls = 1 /\ pc[1] = "flushing" /\ recState[1] = "inactive"
  /\ framePending[1] /\ ~isRecording

\* C18: from every reachable state a mouse-leave event has the successor
\* state of a mouse-up event and no other: isHolding is cleared, and the
\* recorder in mediaRecorderRef is stopped when it is recording and left alone
\* when it is not.
C18_MouseLeaveIsMouseUp ==
  /\ ENABLED handleMouseLeave <=> ENABLED handleMouseUp
  /\ ~ENABLED (handleMouseLeave /\ ~handleMouseUp)
  /\ ~ENABLED (handleMouseUp /\ ~handleMouseLeave)
  /\ mounted
       => ENABLED (/\ handleMouseLeave
                   /\ ~isHolding'
                   /\ IF RefRecording
                        THEN recState'[mediaRecorderRef] = "inactive"
                        ELSE recState' = recState)

\* C18 witness: the pointer has left the orb (or was released) during a
\* recording begun by the pointer: the hold is cleared and the recorder in
\* mediaRecorderRef is flushing.
C18_Witness ==
  /\ mounted /\ ~isHolding /\ ~isKeyHolding
  /\ \E s \in Sessions :
       mediaRecorderRef = s /\ pc[s] = "flushing" /\ ~framePending[s]

\* C19: a session whose recorder delivered no chunk of non-zero size is not
\* dropped: once its onstop has run, onRecordingComplete and
\* uploadVoiceRecording have each been called once for it, with the empty
\* artifact.
C19_EmptyArtifactUploaded ==
  \A s \in Sessions :
    (pc[s] = "uploading" /\ delivered[s] = <<>>)
      => /\ completeCalls[s] = 1
         /\ uploadCalls[s] = 1
         /\ artifact[s] = <<>>

\* C20: once the component is unmounted, no Space keydown and no Space keyup
\* changes anything: none requests the microphone, stops a recorder or touches
\* the state of a session.
C20_NoKeysAfterUnmount ==
  ~mounted
    => /\ ~ENABLED (handleKeyDown("Space") /\ vars' # vars)
       /\ ~ENABLED (handleKeyUp("Space") /\ vars' # vars)

\* C20 witness: the component was unmounted while the recorder of its session
\* was still recording, with the microphone free to be requested again.
C20_Witness ==
  /\ ~mounted /\ nCalls = 1 /\ recState[1] = "recording"
  /\ mediaRecorderRef = 1

\* C21: a Space keydown delivered while the handler holds Space as held
\* (isKeyHolding), or while the recorder in mediaRecorderRef is recording, does
\* not call startRecording; a Space keydown delivered otherwise calls it once
\* and marks Space as held, so that its repeats request nothing more.
C21_KeyRepeatRequestsOnce ==
  mounted
    => /\ (isKeyHolding \/ RefRecording)
            => ~ENABLED (handleKeyDown("Space") /\ nCalls' # nCalls)
       /\ (~isKeyHolding /\ ~RefRecording /\ nCalls < MaxSessions)
            => /\ ENABLED (/\ handleKeyDown("Space")
                           /\ nCalls' = nCalls + 1
                           /\ isKeyHolding')
               /\ ~ENABLED (handleKeyDown("Space") /\ nCalls' # nCalls + 1)

\* C21 witness: Space is held after one effective keydown, whose single
\* acquisition request is still pending.
C21_Witness ==
  /\ mounted /\ isKeyHolding /\ isHolding
  /\ nCalls = 1 /\ pc[1] = "acquiring"

\* C22: a response with status 401, 400 or 5xx rejects with an ApiError whose
\* status field is that of the response; a transport-level failure rejects
\* with an error that carries no status; only a 2xx response fulfils; so the
\* rejection value tells the four failure classes apart.
C22_RejectionTellsCause ==
  settled # Pending
    => /\ (fetched.kind = "response"
             /\ fetched.status \in {400, 401} \cup (500..MaxStatus))
            => /\ settled.state = "rejected" /\ settled.name = "ApiError"
               /\ settled.hasStatus /\ settled.status = fetched.status
       /\ fetched.kind = "failure"
            => settled.state = "rejected" /\ ~settled.hasStatus
       /\ settled.state = "fulfilled"
            => fetched.kind = "response" /\ fetched.status \in 200..299
       /\ (settled.state = "rejected" /\ settled.hasStatus)
            => fetched.kind = "response" /\ fetched.status = settled.status

\* C22 witness: a 401 response has been turned into an ApiError of status 401.
C22_Witness ==
  /\ fetched.kind = "response" /\ fetched.status = 401
  /\ settled.state = "rejected" /\ settled.name = "ApiError"
  /\ settled.hasStatus /\ settled.status = 401

\* C23: throughout Recording there is a pending visualization tick: in every
\* state of the mounted component in which a session's recorder has been
\* started and not yet stopped, a frame of its updateAudioLevel is scheduled.
C23_TickPendingWhileRecording ==
  \A s \in Sessions :
    (mounted /\ pc[s] = "recording") => framePending[s]

\* C24: recording happens only while a hold gesture is in progress: whenever
\* a recorder is recording in the mounted component, isHolding is true (no end
\* intent has been delivered since the last begin).
C24_RecordingOnlyWhileHeld ==
  \A s \in Sessions :
    (mounted /\ recState[s] = "recording") => isHolding

\* C25: a grant that arrives after the component was unmounted during
\* Acquiring leaves, once it has been handled, no recorder recording, no
\* stream live and no visualization tick pending.
C25_UnmountEndsAcquiring ==
  [][\A s \in Sessions :
       (~mounted /\ pc[s] = "acquiring" /\ pc'[s] # "acquiring")
         => /\ recState'[s] # "recording"
            /\ stream'[s] # "live"
            /\ ~framePending'[s]]_vars

\* C26: recorder.stop() is never invoked on a recorder that is not recording
\* (so never twice on one recorder), whether by stopRecording, by handleKeyUp
\* or by the cleanup of the [isRecording] effect.
C26_StopOnlyWhileRecording == ~stopInactive

\* C27: reset timers do not cross sessions: in the mounted component
\* isUploading is true while an upload is in flight, and the "success" or
\* "error" set by a session stays displayed until that session's timer fires.
C27_TimersDoNotCrossSessions ==
  mounted
    => /\ InPhase({"Uploading"}) # {} => isUploading
       /\ \A s \in Sessions :
            /\ pc[s] = "succeeded" => uploadStatus = "success"
            /\ pc[s] = "failed" => uploadStatus = "error"

\* C28: at most one visualization loop is running: at most one frame of
\* updateAudioLevel is pending, and animationFrameRef holds that frame.
C28_AtMostOneLoop ==
  /\ Cardinality({s \in Sessions : framePending[s]}) <= 1
  /\ \A s \in Sessions : framePending[s] => animationFrameRef = s

C30_OnlySpaceIsGestureKey ==
  \A code \in KeyCodes \ {"Space"} :
    /\ ~ENABLED (handleKeyDown(code) /\ vars' # vars)
    /\ ~ENABLED (handleKeyUp(code) /\ vars' # vars)

\* C30 witness: Space is held and the recorder it started is recording with
\* room for another request, so that the keydown or keyup of another key
\* would show if it were taken for a gesture.
C30_Witness ==
  /\ mounted /\ isKeyHolding /\ isHolding /\ isRecording /\ RefRecording
  /\ nCalls < MaxSessions

C32_LevelWithinUnitInterval ==
  /\ published.state = "written"
       => LET arr == dataArray.bytes
          IN /\ published.num * Len(arr) * 255 = reduce(arr) * published.den
             /\ published.den > 0
             /\ 0 <= published.num /\ published.num <= published.den
             /\ (\A i \in 1..Len(arr) : arr[i] = 0) => published.num = 0
             /\ (\A i \in 1..Len(arr) : arr[i] = 255)
                  => published.num = published.den
  /\ published.state = "finalized" => published.num = 0

\* C32 witness: a tick has written the level 1 for a buffer of several bytes,
\* all 255.
C32_Witness ==
  /\ published.state = "written" /\ Len(dataArray.bytes) >= 2
  /\ \A i \in 1..Len(dataArray.bytes) : dataArray.bytes[i] = 255
  /\ published.num = published.den

\* C33: in the legacy VoiceRecorder a mouse up, mouse leave or touch end
\* delivered while the recorder in mediaRecorderRef is recording stops it (so
\* that its onstop, and with it onRecordingComplete, follows), whatever
\* isRecording value the installed handlers captured.
C33_LegacyEndStops ==
  (mounted /\ RefRecording)
    => /\ StopsRecorder(legacyHandleMouseUp)
       /\ StopsRecorder(legacyHandleMouseLeave)
       /\ StopsRecorder(legacyHandleTouchEnd)

====
